---- MODULE Spec2Model ----
(***************************************************************************)
(* Verification model of the scoring and analytics engine of               *)
(* f1-fantasy-stats (src/analytics.py).                                    *)
(*                                                                         *)
(*   Spec     one call of compute_points_row(row, cfg)                     *)
(*   SpecAgg  one call of aggregate_points(sim_df)                         *)
(*   SpecH2H  one call of teammate_h2h(df)                                 *)
(*   SpecCorr one call of correlation_report(df)                           *)
(*   SpecApp  the reruns of the Streamlit script src/app.py                *)
(*   SpecBackoff  one call of _with_backoff (src/data_source.py)           *)
(*   SpecFetch    calls of _read_or_fetch (src/data_source.py)             *)
(*                                                                         *)
(* A cell of a pandas row is modelled as a record: a number, NaN (the      *)
(* column exists and the value is missing) or Missing (the row has no such *)
(* column, so row.get returns its default).                                *)
(***************************************************************************)
EXTENDS Integers, Sequences, FiniteSets, TLC

VARIABLES row, cfg, result,        \* compute_points_row: inputs and outcome
          sim_df, agg,             \* aggregate_points: input table and outcome
          df, per_race, summ, done, \* teammate_h2h: input table, outcomes, returned
          cdf, report,             \* correlation_report: input table and outcome
          source, openf1_loaded,   \* app.py: data source radio, session_state flag
          race_label, cfg_raw,     \* app.py: selected race, scoring widgets
          disk,                    \* app.py: content of data/_openf1_*_cache.csv
          load_cache, sim_cache,   \* app.py: st.cache_data of _load_data, _sim
          corr_cache, shown,       \* app.py: st.cache_data of _corr, table on screen
          fn_arg, attempt, delay,  \* _with_backoff: argument of fn, loop variables
          slept, log, returned,    \* _with_backoff: sleeps, results of fn, outcome
          cache_files, last_call   \* _read_or_fetch: files on disk, the last call

corrVars == <<cdf, report>>

appVars == <<source, openf1_loaded, race_label, cfg_raw, disk,
             load_cache, sim_cache, corr_cache, shown>>

backoffVars == <<fn_arg, attempt, delay, slept, log, returned>>

fetchVars == <<cache_files, last_call>>

vars == <<row, cfg, result, sim_df, agg, df, per_race, summ, done, corrVars,
          appVars, backoffVars, fetchVars>>

----------------------------------------------------------------------------
(* Cells *)

NaN     == [t |-> "nan", v |-> 0]
Missing == [t |-> "missing", v |-> 0]
Num(n)  == [t |-> "num", v |-> n]

\* pd.isna(x)
isna(c) == c.t = "nan"

\* row.get(col, default)
get(r, col, default) == IF r[col].t = "missing" THEN default ELSE r[col]

\* `col in row`
has(r, col) == r[col].t # "missing"

----------------------------------------------------------------------------
(* Bounds of the explored inputs *)

\* the last position of the field: app.py edits finish points for 1..20
PosMax == 20

\* raw position values reach NegSpan below 0 and OverSpan above PosMax
NegSpan == 1
OverSpan == 1
\* the low valid positions explored are 1..MaxLow
MaxLow == 2

RawInts == ((0 - NegSpan) .. MaxLow) \cup (PosMax .. (PosMax + OverSpan))

ValidPos == 1 .. PosMax

----------------------------------------------------------------------------
(* str(int(x)): decimal rendering of an integer, the key of the mappings *)

Digit(n) ==
  CASE n = 0 -> "0" [] n = 1 -> "1" [] n = 2 -> "2" [] n = 3 -> "3"
    [] n = 4 -> "4" [] n = 5 -> "5" [] n = 6 -> "6" [] n = 7 -> "7"
    [] n = 8 -> "8" [] n = 9 -> "9"

RECURSIVE str(_)
str(n) ==
  IF n < 0 THEN "-" \o str(0 - n)
  ELSE IF n < 10 THEN Digit(n)
  ELSE str(n \div 10) \o Digit(n % 10)

\* dict.get(key, 0)
lookup(m, key) == IF key \in DOMAIN m THEN m[key] ELSE 0

\* truth value of an optional dict: None and {} are both false
truthy(m) == DOMAIN m # {}

EmptyMap == [k \in {} |-> 0]

----------------------------------------------------------------------------
(* Outcome of a call: a returned integer or a raised exception *)

Pending    == [st |-> "pending", val |-> 0]
Ret(n)     == [st |-> "ok", val |-> n]
ValueError == [st |-> "raise", val |-> 0]

\* int(x) of a cell: int(float('nan')) raises ValueError
int(c) == IF isna(c) THEN ValueError ELSE Ret(c.v)

\* pts += term, where evaluating the term may raise
add(acc, term) ==
  IF acc.st = "raise" THEN acc
  ELSE IF term.st = "raise" THEN term
  ELSE Ret(acc.val + term.val)

----------------------------------------------------------------------------
(* compute_points_row, statement by statement *)

\* lines 66-67
FinishPoints(r, c) ==
  IF ~isna(get(r, "finish", NaN))
  THEN Ret(lookup(c.race_points_by_finish, str(r["finish"].v)))
  ELSE Ret(0)

\* lines 68-69
PoleBonus(r, c) ==
  IF ~isna(get(r, "quali", NaN)) /\ r["quali"].v = 1
  THEN Ret(c.pole_bonus)
  ELSE Ret(0)

\* lines 70-71
FastestLapBonus(r, c) ==
  LET f == int(get(r, "fastest_lap", Num(0)))
  IN  IF f.st = "raise" THEN f
      ELSE IF f.val = 1 THEN Ret(c.fastest_lap_bonus) ELSE Ret(0)

abs(n) == IF n < 0 THEN 0 - n ELSE n

\* the loss added instead of subtracted
PositionChange_LossAdded(r, c) ==
  IF ~isna(get(r, "grid", NaN)) /\ ~isna(get(r, "finish", NaN))
  THEN LET delta == r["grid"].v - r["finish"].v
       IN  IF delta > 0 THEN Ret(delta * c.position_gain_bonus)
           ELSE IF delta < 0 THEN Ret(abs(delta) * c.position_loss_penalty)
           ELSE Ret(0)
  ELSE Ret(0)

\* lines 72-77
PositionChange(r, c) ==
  IF ~isna(get(r, "grid", NaN)) /\ ~isna(get(r, "finish", NaN))
  THEN LET delta == r["grid"].v - r["finish"].v
       IN  IF delta > 0 THEN Ret(delta * c.position_gain_bonus)
           ELSE IF delta < 0 THEN Ret(abs(delta) * (0 - c.position_loss_penalty))
           ELSE Ret(0)
  ELSE Ret(0)

\* the penalty applied only to a row that has a finish
DnfPenalty_OnlyClassified(r, c) ==
  LET d == int(get(r, "dnf", Num(0)))
  IN  IF d.st = "raise" THEN d
      ELSE IF d.val = 1 /\ ~isna(get(r, "finish", NaN)) THEN Ret(0 - c.dnf_penalty)
      ELSE Ret(0)

\* lines 78-79
DnfPenalty(r, c) ==
  LET d == int(get(r, "dnf", Num(0)))
  IN  IF d.st = "raise" THEN d
      ELSE IF d.val = 1 THEN Ret(0 - c.dnf_penalty) ELSE Ret(0)

\* lines 80-82
QualiPoints(r, c) ==
  IF truthy(c.qualifying_points_by_position)
  THEN LET q == int(get(r, "quali", Num(0)))
       IN  IF q.st = "raise" THEN q
           ELSE Ret(lookup(c.qualifying_points_by_position, str(q.val)))
  ELSE Ret(0)

\* lines 85-86, one practice column
PracticeCol(r, c, col) ==
  IF has(r, col) /\ ~isna(r[col])
  THEN lookup(c.practice_points_by_position, str(r[col].v))
  ELSE 0

\* lines 83-86
PracticePoints(r, c) ==
  IF truthy(c.practice_points_by_position)
  THEN Ret(PracticeCol(r, c, "p1") + PracticeCol(r, c, "p2") + PracticeCol(r, c, "p3"))
  ELSE Ret(0)

\* lines 64-87
compute_points_row(r, c) ==
  add(add(add(add(add(add(add(Ret(0),
      FinishPoints(r, c)),
      PoleBonus(r, c)),
      FastestLapBonus(r, c)),
      PositionChange(r, c)),
      DnfPenalty(r, c)),
      QualiPoints(r, c)),
      PracticePoints(r, c))

----------------------------------------------------------------------------
(* Inputs of compute_points_row *)

PosCells   == {NaN} \cup {Num(n) : n \in RawInts}
QualiCells == {Missing} \cup PosCells
FlagCells  == {Missing, NaN, Num(0), Num(1)}

\* practice columns: none, all empty, or some filled (in and out of range)
PracticeTriples ==
  { <<Missing, Missing, Missing>>,
    <<NaN, NaN, NaN>>,
    <<Num(1), Num(PosMax), NaN>>,
    <<Num(PosMax + OverSpan), Num(1), Num(0)>> }

Rows ==
  { [finish |-> f, quali |-> q, grid |-> g, fastest_lap |-> fl, dnf |-> d,
     p1 |-> p[1], p2 |-> p[2], p3 |-> p[3]] :
       f \in PosCells, q \in QualiCells, g \in PosCells,
       fl \in FlagCells, d \in FlagCells, p \in PracticeTriples }

\* finish points of the spec's scenario, and a table with keys outside 1..20
RaceMaps ==
  { ("1" :> 25) @@ ("2" :> 18) @@ ("3" :> 15) @@ ("20" :> 1),
    ("1" :> 25) @@ ("20" :> 1) @@ ("0" :> 4) @@ ("21" :> 6) @@ ("-1" :> 9) }

QualiMaps    == { EmptyMap, ("1" :> 7) @@ ("20" :> 2) @@ ("0" :> 11) }
PracticeMaps == { EmptyMap, ("1" :> 1) @@ ("20" :> 2) @@ ("21" :> 13) }

Scalars ==
  { [pole_bonus |-> 0, fastest_lap_bonus |-> 0, dnf_penalty |-> 0,
     position_gain_bonus |-> 0, position_loss_penalty |-> 0],
    [pole_bonus |-> 5, fastest_lap_bonus |-> 3, dnf_penalty |-> 10,
     position_gain_bonus |-> 2, position_loss_penalty |-> 1] }

\* PointsConfig
MkCfg(rm, s, qm, pm) ==
  [race_points_by_finish |-> rm,
   pole_bonus |-> s.pole_bonus, fastest_lap_bonus |-> s.fastest_lap_bonus,
   dnf_penalty |-> s.dnf_penalty,
   position_gain_bonus |-> s.position_gain_bonus,
   position_loss_penalty |-> s.position_loss_penalty,
   qualifying_points_by_position |-> qm,
   practice_points_by_position |-> pm]

Cfgs == { MkCfg(rm, s, qm, pm) :
            rm \in RaceMaps, s \in Scalars, qm \in QualiMaps, pm \in PracticeMaps }

----------------------------------------------------------------------------
(* Tables: the columns a DataFrame has and its rows in order. A row holds  *)
(* Missing in every column the table does not have.                        *)

KeyError == [st |-> "raise", val |-> <<>>]
Frame(rows) == [st |-> "ok", val |-> rows]

RECURSIVE SumPoints(_)
SumPoints(rows) ==
  IF rows = <<>> THEN 0 ELSE rows[1].sim_points + SumPoints(Tail(rows))

\* lexicographic order of two integer tuples of one length
RECURSIVE LexLess(_, _)
LexLess(a, b) ==
  IF a = <<>> THEN FALSE
  ELSE IF a[1] # b[1] THEN a[1] < b[1]
  ELSE LexLess(Tail(a), Tail(b))

\* the elements x of the pairs [k, x] of S, in the order of their distinct
\* integer-tuple keys k
RECURSIVE SortedBy(_)
SortedBy(S) ==
  IF S = {} THEN <<>>
  ELSE LET first == CHOOSE p \in S : \A q \in S \ {p} : LexLess(p.k, q.k)
       IN  <<first.x>> \o SortedBy(S \ {first})

GroupKeys == <<"season", "round", "grand_prix", "driver", "team">>

KeyOf(r) == [i \in 1..Len(GroupKeys) |-> r[GroupKeys[i]]]

\* groupby(keys) drops a row that has NaN in any key (dropna defaults to True)
HasNaNKey(r) == \E i \in 1..Len(GroupKeys) : isna(r[GroupKeys[i]])

GroupSum(rows, k) ==
  LET RECURSIVE Go(_)
      Go(rest) ==
        IF rest = <<>> THEN 0
        ELSE (IF KeyOf(rest[1]) = k THEN rest[1].sim_points ELSE 0) + Go(Tail(rest))
  IN  Go(rows)

\* line 95: groupby(...,as_index=False)["sim_points"].sum()
GroupedSums(t) ==
  LET kept == { i \in 1..Len(t.rows) : ~HasNaNKey(t.rows[i]) }
      keys == { KeyOf(t.rows[i]) : i \in kept }
  IN  { [season |-> k[1], round |-> k[2], grand_prix |-> k[3],
         driver |-> k[4], team |-> k[5],
         sim_points |-> GroupSum(t.rows, k)] : k \in keys }

\* line 96: season and round ascending, sim_points descending; the sort is
\* stable, so ties keep groupby's order by the keys
AggOrder(g) ==
  <<g.season.v, g.round.v, 0 - g.sim_points, g.grand_prix.v, g.driver.v, g.team.v>>

\* lines 94-96
aggregate_points(t) ==
  IF ~({GroupKeys[i] : i \in 1..Len(GroupKeys)} \cup {"sim_points"} \subseteq t.cols)
  THEN KeyError
  ELSE Frame(SortedBy({ [k |-> AggOrder(g), x |-> g] : g \in GroupedSums(t) }))

----------------------------------------------------------------------------
(* Inputs of aggregate_points *)

\* rows of the explored tables
MaxSimRows == 3

SimCols == {"season", "round", "grand_prix", "driver", "team", "sim_points"}

\* the season app.py offers first
Season == 2025

\* a scored row: driver 1 or 2 in round 1 or 2, with at most one key absent
SimRows ==
  { [season |-> Num(Season),
     round |-> IF a = "round" THEN NaN ELSE Num(r),
     grand_prix |-> Num(r),
     driver |-> IF a = "driver" THEN NaN ELSE Num(d),
     team |-> IF a = "team" THEN NaN ELSE Num(1),
     sim_points |-> p] :
       r \in {1, 2}, d \in {1, 2}, a \in {"none", "round", "driver", "team"},
       p \in {0 - 10, 25} }

\* data_source.py writes tables without a round column when the round of
\* the meeting is unknown
WithoutRound(r) == [r EXCEPT !.round = Missing]

\* the table of rows, with or without its round column
SimTable(rows, hasRound) ==
  IF hasRound THEN [cols |-> SimCols, rows |-> rows]
  ELSE [cols |-> SimCols \ {"round"},
        rows |-> [i \in 1..Len(rows) |-> WithoutRound(rows[i])]]

\* a table that has none of the key columns, only sim_points
KeylessTable(rows) ==
  [cols |-> {"sim_points"},
   rows |-> [i \in 1..Len(rows) |->
               [season |-> Missing, round |-> Missing, grand_prix |-> Missing,
                driver |-> Missing, team |-> Missing,
                sim_points |-> rows[i].sim_points]]]

----------------------------------------------------------------------------
(* teammate_h2h *)

\* sort position of a cell: numbers ascending, NaN last
Rank(c) == <<IF isna(c) THEN 1 ELSE 0, c.v>>

needed == {"season", "round", "grand_prix", "driver", "team", "finish", "dnf"}

\* line 117: the key of groupby(["season","round","grand_prix","team"])
EventTeam(r) == <<r.season, r.round, r.grand_prix, r.team>>

\* the rows of a sequence that satisfy Keep, in order
RECURSIVE SelectRows(_, _)
SelectRows(rows, keep) ==
  IF rows = <<>> THEN <<>>
  ELSE (IF rows[1] \in keep THEN <<rows[1]>> ELSE <<>>) \o SelectRows(Tail(rows), keep)

\* the rows with an absent driver kept
Entrants_KeepingAbsentDriver(t, k) ==
  SelectRows(t.rows, { r \in {t.rows[i] : i \in 1..Len(t.rows)} : EventTeam(r) = k })

\* lines 119-120: the rows of group k, in table order, without the rows
\* whose driver is absent
Entrants(t, k) ==
  SelectRows(t.rows, { r \in {t.rows[i] : i \in 1..Len(t.rows)} :
                          EventTeam(r) = k /\ ~isna(r.driver) })

\* lines 125-129: (finish or None, dnf with NaN read as 0)
outcome(x) ==
  [f |-> IF isna(x.finish) THEN NaN ELSE Num(x.finish.v),
   d |-> IF ~isna(x.dnf) THEN x.dnf.v ELSE 0]

\* the first rule dropped: a slip that lets a lone DNF decide two absent finishes
decide_WithoutBothAbsent(f1, d1, f2, d2) ==
  IF d1 = 1 /\ d2 = 1 THEN NaN
  ELSE IF d1 = 1 /\ d2 = 0 THEN Num(0)
  ELSE IF d1 = 0 /\ d2 = 1 THEN Num(1)
  ELSE IF isna(f1) \/ isna(f2) THEN NaN
  ELSE IF f1.v < f2.v THEN Num(1)
  ELSE IF f1.v > f2.v THEN Num(0)
  ELSE NaN

\* lines 132-148: 1 if 1 beats 2, 0 if it loses, None (NaN) if no result
decide(f1, d1, f2, d2) ==
  IF isna(f1) /\ isna(f2) THEN NaN
  ELSE IF d1 = 1 /\ d2 = 1 THEN NaN
  ELSE IF d1 = 1 /\ d2 = 0 THEN Num(0)
  ELSE IF d1 = 0 /\ d2 = 1 THEN Num(1)
  ELSE IF isna(f1) \/ isna(f2) THEN NaN
  ELSE IF f1.v < f2.v THEN Num(1)
  ELSE IF f1.v > f2.v THEN Num(0)
  ELSE NaN

\* lines 151-166: one per-race row
RaceRow(k, x, y, ox, oy, win) ==
  [season |-> k[1], round |-> k[2], grand_prix |-> k[3], team |-> k[4],
   driver |-> x.driver, teammate |-> y.driver,
   finish |-> ox.f, tm_finish |-> oy.f, dnf |-> ox.d, tm_dnf |-> oy.d,
   beat_teammate |-> win]

\* b's outcome copied from a's instead of decided from b's side
GroupRows_CopiedWin(t, k) ==
  LET g == Entrants(t, k)
  IN  IF Len(g) # 2 THEN <<>>
      ELSE LET a == g[1]
               b == g[2]
               oa == outcome(a)
               ob == outcome(b)
               a_win == decide(oa.f, oa.d, ob.f, ob.d)
           IN  <<RaceRow(k, a, b, oa, ob, a_win), RaceRow(k, b, a, ob, oa, a_win)>>

\* lines 120-166: the rows one group appends
GroupRows(t, k) ==
  LET g == Entrants(t, k)
  IN  IF Len(g) # 2 THEN <<>>
      ELSE LET a == g[1]
               b == g[2]
               oa == outcome(a)
               ob == outcome(b)
               a_win == decide(oa.f, oa.d, ob.f, ob.d)
               b_win == IF ~isna(a_win) THEN decide(ob.f, ob.d, oa.f, oa.d) ELSE NaN
           IN  <<RaceRow(k, a, b, oa, ob, a_win), RaceRow(k, b, a, ob, oa, b_win)>>

RECURSIVE Flatten(_)
Flatten(ss) == IF ss = <<>> THEN <<>> ELSE ss[1] \o Flatten(Tail(ss))

\* lines 117-166: groupby iterates its groups in key order (NaN keys are
\* kept, dropna=False, and come last)
AppendedRows(t) ==
  LET keys == { EventTeam(t.rows[i]) : i \in 1..Len(t.rows) }
      order == SortedBy({ [k |-> Rank(k[1]) \o Rank(k[2]) \o Rank(k[3]) \o Rank(k[4]),
                           x |-> k] : k \in keys })
  IN  Flatten([i \in 1..Len(order) |-> GroupRows(t, order[i])])

\* line 180: stable sort by season, round, team, driver
SortPerRace(rows) ==
  SortedBy({ [k |-> Rank(rows[i].season) \o Rank(rows[i].round)
                    \o Rank(rows[i].team) \o Rank(rows[i].driver) \o <<i>>,
              x |-> rows[i]] : i \in 1..Len(rows) })

\* round(wins / total, 3) in thousandths, halves to even
win_pct(wins, total) ==
  LET q == (1000 * wins) \div total
      r == (1000 * wins) % total
  IN  IF 2 * r < total THEN q
      ELSE IF 2 * r > total THEN q + 1
      ELSE IF q % 2 = 0 THEN q ELSE q + 1

CountRows(rows, keep) == Cardinality({ i \in 1..Len(rows) : rows[i] \in keep })

\* the no-result rows counted too: total taken over per_race instead of valid
SummaryRow_CountingAll(rows, d) ==
  LET mine == { r \in {rows[i] : i \in 1..Len(rows)} : r.driver = d }
      wins == CountRows(rows, { r \in mine : r.beat_teammate = Num(1) })
      total == CountRows(rows, mine)
  IN  [driver |-> d, wins |-> wins, losses |-> total - wins, total |-> total,
       win_pct |-> win_pct(wins, total)]

\* lines 173-178: the summary row of driver d over the valid rows
SummaryRow(rows, d) ==
  LET mine == { r \in {rows[i] : i \in 1..Len(rows)} :
                   r.driver = d /\ ~isna(r.beat_teammate) }
      wins == CountRows(rows, { r \in mine : r.beat_teammate = Num(1) })
      total == CountRows(rows, mine)
  IN  [driver |-> d, wins |-> wins, losses |-> total - wins, total |-> total,
       win_pct |-> win_pct(wins, total)]

\* lines 169-179: valid rows grouped by driver, sorted by win_pct, total and
\* wins descending (stable: ties stay in driver order)
Summary(rows) ==
  LET valid == { rows[i].driver : i \in { j \in 1..Len(rows) : ~isna(rows[j].beat_teammate) } }
  IN  SortedBy({ [k |-> <<0 - SummaryRow(rows, d).win_pct, 0 - SummaryRow(rows, d).total,
                          0 - SummaryRow(rows, d).wins>> \o Rank(d),
                  x |-> SummaryRow(rows, d)] : d \in valid })

\* lines 98-180: (per_race, summ)
teammate_h2h(t) ==
  IF ~(needed \subseteq t.cols)
  THEN <<(<<>>), (<<>>)>>
  ELSE LET rows == AppendedRows(t)
       IN  <<SortPerRace(rows), Summary(rows)>>

----------------------------------------------------------------------------
(* Inputs of teammate_h2h *)

\* rows of the explored tables
MaxRows == 4
\* finishing positions of the explored two-entrant tables
MaxFinish == 2

H2HCols == needed \cup {"grid", "fastest_lap"}

Event(r, team) ==
  [season |-> Num(Season), round |-> Num(r), grand_prix |-> Num(r), team |-> team]

Entry(e, d, f, dnf) ==
  [season |-> e.season, round |-> e.round, grand_prix |-> e.grand_prix,
   team |-> e.team, driver |-> d, finish |-> f, dnf |-> dnf]

FinishCells == {NaN} \cup {Num(n) : n \in 1..MaxFinish}
DnfCells    == {NaN, Num(0), Num(1)}
DriverCells == {NaN, Num(1), Num(2)}

\* a classified first or second place, or a retirement
Classified == { [finish |-> Num(1), dnf |-> Num(0)],
                [finish |-> Num(2), dnf |-> Num(0)],
                [finish |-> NaN, dnf |-> Num(1)] }

\* season tables: any drivers of one team in rounds 1 and 2; a row without
\* a driver is dropped before its finish and dnf are read, so one is enough
SeasonRows ==
  { Entry(Event(r, Num(1)), d, o.finish, o.dnf) :
      r \in {1, 2}, d \in DriverCells \ {NaN}, o \in Classified }
  \cup { Entry(Event(r, Num(1)), NaN, Num(1), Num(0)) : r \in {1, 2} }

\* the table of rows, whole or without the column a results file lacks
H2HTable(rows, lacks) ==
  IF lacks = "none" THEN [cols |-> H2HCols, rows |-> rows]
  ELSE [cols |-> H2HCols \ {lacks},
        rows |-> [i \in 1..Len(rows) |-> [rows[i] EXCEPT ![lacks] = Missing]]]

----------------------------------------------------------------------------
(* correlation_report *)

Predictors == <<"p1", "p2", "p3", "quali", "grid">>

\* a correlation coefficient r = s * sqrt(a / b), kept exact as the sign s
\* of the covariance, its square a and the product b > 0 of the variances
\* (all scaled by n * n); NaN when a variance is 0
Coef(s, a, b) == [t |-> "num", v |-> <<s, a, b>>]
NullCoef == [t |-> "nan", v |-> <<0, 0, 1>>]

RECURSIVE SumSeq(_)
SumSeq(xs) == IF xs = <<>> THEN 0 ELSE xs[1] + SumSeq(Tail(xs))

sign(n) == IF n > 0 THEN 1 ELSE IF n < 0 THEN 0 - 1 ELSE 0

\* DataFrame.corr(method="pearson") of two columns of equal length
pearson(xs, ys) ==
  LET n   == Len(xs)
      sx  == SumSeq(xs)
      sy  == SumSeq(ys)
      sxy == SumSeq([i \in 1..n |-> xs[i] * ys[i]])
      sxx == SumSeq([i \in 1..n |-> xs[i] * xs[i]])
      syy == SumSeq([i \in 1..n |-> ys[i] * ys[i]])
      cov == n * sxy - sx * sy
      vx  == n * sxx - sx * sx
      vy  == n * syy - sy * sy
  IN  IF vx * vy = 0 THEN NullCoef ELSE Coef(sign(cov), cov * cov, vx * vy)

\* twice the average rank of each value (ties share the mean of their ranks)
ranks(xs) ==
  [i \in 1..Len(xs) |->
     2 * Cardinality({ j \in 1..Len(xs) : xs[j] < xs[i] })
       + Cardinality({ j \in 1..Len(xs) : xs[j] = xs[i] }) + 1]

\* DataFrame.corr(method="spearman"): Pearson's coefficient of the ranks
spearman(xs, ys) == pearson(ranks(xs), ranks(ys))

\* r1 < r2 for two coefficients that are not NaN
CoefLess(c1, c2) == c1.v[1] * c1.v[2] * c2.v[3] < c2.v[1] * c2.v[2] * c1.v[3]

\* line 47: a predictor that ignores finish when it drops rows
PairedRows_PredictorOnly(t, col) ==
  SelectRows(t.rows, { t.rows[i] : i \in { j \in 1..Len(t.rows) :
                                            ~isna(t.rows[j][col]) } })

\* line 47: df[[col, "finish"]].dropna()
PairedRows(t, col) ==
  SelectRows(t.rows, { t.rows[i] : i \in { j \in 1..Len(t.rows) :
                         ~isna(t.rows[j][col]) /\ ~isna(t.rows[j].finish) } })

\* lines 46-54: the report row of one predictor column
CorrRow(t, col) ==
  LET sub == PairedRows(t, col)
      n   == Len(sub)
      xs  == [i \in 1..n |-> sub[i][col].v]
      ys  == [i \in 1..n |-> sub[i].finish.v]
  IN  IF n < 3
      THEN [metric |-> col, pearson |-> NullCoef, spearman |-> NullCoef, n |-> n]
      ELSE [metric |-> col, pearson |-> pearson(xs, ys),
            spearman |-> spearman(xs, ys), n |-> n]

\* line 56: sort_values("spearman", na_position="last"); rows with equal
\* keys and rows with NaN keep their order
SpearmanBefore(rows, i, j) ==
  IF isna(rows[i].spearman) # isna(rows[j].spearman) THEN isna(rows[j].spearman)
  ELSE IF isna(rows[i].spearman) THEN i < j
  ELSE IF CoefLess(rows[i].spearman, rows[j].spearman) THEN TRUE
  ELSE IF CoefLess(rows[j].spearman, rows[i].spearman) THEN FALSE
  ELSE i < j

SortReport(rows) ==
  [k \in 1..Len(rows) |->
     rows[CHOOSE i \in 1..Len(rows) :
            Cardinality({ j \in 1..Len(rows) : SpearmanBefore(rows, j, i) }) = k - 1]]

\* the predictor columns of the table, in the order of line 46
RECURSIVE PresentPredictors(_, _)
PresentPredictors(cols, list) ==
  IF list = <<>> THEN <<>>
  ELSE (IF list[1] \in cols THEN <<list[1]>> ELSE <<>>)
         \o PresentPredictors(cols, Tail(list))

\* lines 42-56. Without a finish column the result is an empty frame; with
\* no predictor column the frame built from no rows has no spearman column
\* and sort_values raises KeyError.
correlation_report(t) ==
  IF "finish" \notin t.cols THEN Frame(<<>>)
  ELSE LET present == PresentPredictors(t.cols, Predictors)
           rows    == [i \in 1..Len(present) |-> CorrRow(t, present[i])]
       IN  IF rows = <<>> THEN KeyError ELSE Frame(SortReport(rows))

----------------------------------------------------------------------------
(* Inputs of correlation_report *)

\* rows of the explored tables
MaxCorrRows == 3

CorrCols == {"p1", "p2", "p3", "quali", "grid", "finish"}

\* quali, grid and finish are absent, 1 or 2; the practice columns are
\* absent throughout, as in the tables data_source.py builds
CorrCells == {NaN, Num(1), Num(2)}

CorrRows ==
  { [p1 |-> NaN, p2 |-> NaN, p3 |-> NaN, quali |-> q, grid |-> g, finish |-> f] :
      q \in CorrCells, g \in CorrCells, f \in CorrCells }

\* the table of rows restricted to the columns cols
CorrTable(rows, cols) ==
  [cols |-> cols,
   rows |-> [i \in 1..Len(rows) |->
               [c \in CorrCols |-> IF c \in cols THEN rows[i][c] ELSE Missing]]]

\* the column sets explored: all columns, no finish, no predictor
CorrColSets == {CorrCols, CorrCols \ {"finish"}, {"finish"}}

----------------------------------------------------------------------------
(* app.py: the script, rerun on every interaction *)

\* races offered by the race selectbox
MaxRace == 2
Races == 1..MaxRace

\* a data set is named by the race it holds; the bundled sample is 0
SampleData == 0
\* the OpenF1 cache files before the first fetch
NoFile == 0 - 1

\* values of the scoring widgets (pole bonus)
CfgChoices == {0, 5}

SamplePath == "data/sessions.csv"
OpenF1Path == "data/_openf1_sessions_cache.csv"

\* an empty st.cache_data store
NoEntries == <<>>

NothingShown == [fn |-> "none", val |-> <<>>]

\* lines 36-41: the table _sim computes from the joined table and the config
sim_of(d, c) == <<d, c>>
\* lines 28-30: the table _corr computes from the joined table
corr_of(d) == <<d>>

\* st.cache_data: the stored value of the key when there is one, else the
\* computed value
cached(store, key, computed) ==
  IF key \in DOMAIN store THEN store[key] ELSE computed

remember(store, key, computed) ==
  IF key \in DOMAIN store THEN store ELSE (key :> computed) @@ store

\* what load_csvs reads at a path
content(path, files) == IF path = SamplePath THEN SampleData ELSE files

\* One run of the script with the widgets at src, rc, c, the button click
\* pressed ("none" when the run comes from another widget) and found telling
\* whether OpenF1 has data for the race.
Script(src, rc, c, click, found) ==
  LET fetching == src = "OpenF1" /\ click = "fetch"
      \* lines 89-91: st.stop() when the race has no data
      nodata   == fetching /\ ~found
      \* lines 92-93
      files    == IF fetching /\ found THEN rc ELSE disk
      \* lines 56, 65, 94
      loaded   == IF src # "OpenF1" THEN FALSE
                  ELSE IF fetching /\ found THEN TRUE ELSE openf1_loaded
      \* lines 61-62 (no file uploaded), 97-101
      stops    == src = "Upload CSVs" \/ nodata \/ (src = "OpenF1" /\ ~loaded)
      path     == IF src = "Sample" THEN SamplePath ELSE OpenF1Path
      \* line 157
      joined   == cached(load_cache, path, content(path, files))
  IN  /\ source' = src /\ race_label' = rc /\ cfg_raw' = c
      /\ disk' = files
      /\ openf1_loaded' = loaded
      /\ load_cache' = IF stops THEN load_cache
                        ELSE remember(load_cache, path, content(path, files))
      /\ sim_cache' = IF ~stops /\ click = "sim"
                       THEN remember(sim_cache, <<joined, c>>, sim_of(joined, c))
                       ELSE sim_cache
      /\ corr_cache' = IF ~stops /\ click = "corr"
                        THEN remember(corr_cache, joined, corr_of(joined))
                        ELSE corr_cache
      /\ shown' = IF stops THEN NothingShown
                   ELSE IF click = "sim"
                   THEN [fn |-> "sim",
                         val |-> cached(sim_cache, <<joined, c>>, sim_of(joined, c))]
                   ELSE IF click = "corr"
                   THEN [fn |-> "corr",
                         val |-> cached(corr_cache, joined, corr_of(joined))]
                   ELSE NothingShown

----------------------------------------------------------------------------
(* data_source.py: _with_backoff *)

\* line 29: range(6)
MaxAttempts == 6
\* line 33: the last attempt index that may retry is below 5
RetryLimit == 5
\* line 33: HTTP 429 Too Many Requests
TooManyRequests == 429

\* meeting and session keys passed to fn
MaxKey == 3
Keys == 1..MaxKey

\* what a call of fn does: returns a frame, raises HTTPStatusError with a
\* status code, or raises another exception (a timeout, a connection error)
Returned(v) == [kind |-> "ok", v |-> v]
HTTPStatusError(code) == [kind |-> "http", v |-> code]
OtherError == [kind |-> "exc", v |-> 0]

StatusCodes == {404, TooManyRequests, 500}

\* the frames fn returns for a key: without rows or with one row
FnResults(key) ==
  { Returned(key * 10 + n) : n \in {0, 1} }
    \cup { HTTPStatusError(c) : c \in StatusCodes } \cup {OtherError}

Raise(e) == [st |-> "raise", val |-> e.v]

\* line 33, retrying on every HTTP error
retryable_AnyStatus(e, n) == e.kind = "http" /\ n < RetryLimit

\* lines 32-33: except HTTPStatusError, status 429 and attempt < 5
retryable(e, n) == e.kind = "http" /\ e.v = TooManyRequests /\ n < RetryLimit

----------------------------------------------------------------------------
(* data_source.py: _read_or_fetch *)

\* rows of a fetched frame
MaxFetched == 2

\* the cache files of one meeting that are read first
CachePaths == {"sessions.csv", "quali.csv", "race.csv"}

\* a DataFrame by its number of rows; pd.DataFrame([]) has no rows and no
\* columns
Frames == 0..MaxFetched

NoCsv == [exists |-> FALSE, lines |-> <<>>]
Csv(lines) == [exists |-> TRUE, lines |-> lines]

\* line 51: df.to_csv(path, index=False): a header and a line per row; a
\* frame without columns is written as one empty line
to_csv(f) ==
  IF f = 0 THEN Csv(<<"">>)
  ELSE Csv(<<"meeting_key,session_key">> \o [i \in 1..f |-> "row"])

EmptyDataError == [st |-> "raise", val |-> 0 - 1]

\* line 45: pd.read_csv(path): a file without a header line has no columns
\* to parse
read_csv(file) ==
  IF file.lines = <<"">> THEN EmptyDataError ELSE Ret(Len(file.lines) - 1)

\* what a call of fetch_fn does: returns a frame or raises (the error
\* _with_backoff re-raises)
FetchResults == { Returned(f) : f \in Frames } \cup {HTTPStatusError(TooManyRequests)}

NoCall == [path |-> "", existed |-> FALSE, fetched |-> FALSE, out |-> Pending]

----------------------------------------------------------------------------
(* Idle values of the parts a specification does not use *)

NoTable == <<>>

ScoreIdle == row = [finish |-> NaN, quali |-> NaN, grid |-> NaN,
                    fastest_lap |-> NaN, dnf |-> NaN,
                    p1 |-> NaN, p2 |-> NaN, p3 |-> NaN]
             /\ cfg = MkCfg(EmptyMap, CHOOSE s \in Scalars : s.pole_bonus = 0,
                            EmptyMap, EmptyMap)
             /\ result = Pending

NotRun == [st |-> "pending", val |-> <<>>]

AggIdle == sim_df = NoTable /\ agg = NotRun

H2HIdle == df = NoTable /\ per_race = NoTable /\ summ = NoTable /\ done = FALSE

CorrIdle == cdf = NoTable /\ report = NotRun

\* the session of app.py before its first run
AppIdle ==
  /\ source = "Sample" /\ openf1_loaded = FALSE /\ race_label = 1
  /\ cfg_raw = 0 /\ disk = NoFile
  /\ load_cache = NoEntries /\ sim_cache = NoEntries /\ corr_cache = NoEntries
  /\ shown = NothingShown

\* _with_backoff before its loop
BackoffIdle ==
  /\ fn_arg = 0 /\ attempt = 0 /\ delay = 1
  /\ slept = <<>> /\ log = <<>> /\ returned = Pending

\* no cache file written, _read_or_fetch not called
FetchIdle ==
  /\ cache_files = [p \in CachePaths |-> NoCsv]
  /\ last_call = NoCall

\* the parts outside analytics.py's scoring, aggregation and head-to-head
OthersIdle == CorrIdle /\ AppIdle /\ BackoffIdle /\ FetchIdle

----------------------------------------------------------------------------
(* Spec: simulate_points applies compute_points_row to a row *)

Init ==
  /\ row \in Rows
  /\ cfg \in Cfgs
  /\ result = Pending
  /\ AggIdle
  /\ H2HIdle
  /\ OthersIdle

ScoreRow ==
  /\ result = Pending
  /\ result' = compute_points_row(row, cfg)
  /\ UNCHANGED <<row, cfg, sim_df, agg, df, per_race, summ, done, corrVars, appVars, backoffVars, fetchVars>>

Next == ScoreRow

Spec == Init /\ [][Next]_vars

----------------------------------------------------------------------------
(* Properties of compute_points_row *)

Scored == result.st # "pending"

InRange(c) == c.t = "num" /\ c.v \in ValidPos

\* a position cell as the specification's normalizer leaves it
Normalized(c) == IF c.t = "num" /\ c.v \notin ValidPos THEN NaN ELSE c

NormalizedRow(r) ==
  [r EXCEPT !.finish = Normalized(r.finish), !.quali = Normalized(r.quali),
            !.grid = Normalized(r.grid), !.p1 = Normalized(r.p1),
            !.p2 = Normalized(r.p2), !.p3 = Normalized(r.p3)]

\* C2 (as claimed): a finish, quali, grid or practice value outside 1..20
\* is treated as absent: whenever the row and its normalized form both
\* score, they score the same.
C2_OutOfRangeIsAbsent ==
  LET n == compute_points_row(NormalizedRow(row), cfg)
  IN  (result.st = "ok" /\ n.st = "ok") => result.val = n.val

\* C3 (as claimed): compute_points_row never raises.
C3_NeverRaises == result.st # "raise"

\* the adjustment the claim states for gain = grid - finish
ClaimedAdjustment(gain, c) ==
  IF gain > 0 THEN gain * c.position_gain_bonus
  ELSE IF gain < 0 THEN 0 - (abs(gain) * c.position_loss_penalty)
  ELSE 0

NoPositionCfg(c) ==
  [c EXCEPT !.position_gain_bonus = 0, !.position_loss_penalty = 0]

\* C8: for grid and finish each a position in 1..20 or absent: with both
\* present the score exceeds the score of the same row without its grid by
\* +gain * position_gain_bonus (gain > 0), -|gain| * position_loss_penalty
\* (gain < 0) or 0 (gain = 0); with one absent the score does not depend on
\* the two multipliers. A row that raises does so with or without the grid.
C8_PositionChange ==
  (Scored /\ (isna(row.grid) \/ InRange(row.grid))
          /\ (isna(row.finish) \/ InRange(row.finish)))
  => LET base == compute_points_row([row EXCEPT !.grid = NaN], cfg)
         flat == compute_points_row(row, NoPositionCfg(cfg))
     IN  /\ base.st = result.st
         /\ flat.st = result.st
         /\ result.st = "ok" =>
              IF InRange(row.grid) /\ InRange(row.finish)
              THEN result.val - base.val =
                     ClaimedAdjustment(row.grid.v - row.finish.v, cfg)
              ELSE result.val = flat.val

C8_Witness ==
  /\ result.st = "ok"
  /\ InRange(row.grid) /\ InRange(row.finish)
  /\ row.grid.v < row.finish.v
  /\ cfg.position_loss_penalty > 0
  /\ result.val # compute_points_row([row EXCEPT !.grid = NaN], cfg).val

DnfFalse(r) == get(r, "dnf", Num(0)) = Num(0)

\* C9: the row with dnf true scores exactly dnf_penalty less than the same
\* row with dnf false, and raises exactly when that one raises.
C9_DnfToggle ==
  /\ (Scored /\ DnfFalse(row)) =>
       LET t == compute_points_row([row EXCEPT !.dnf = Num(1)], cfg)
       IN  /\ t.st = result.st
           /\ result.st = "ok" => t.val = result.val - cfg.dnf_penalty
  /\ (Scored /\ row.dnf = Num(1)) =>
       LET f == compute_points_row([row EXCEPT !.dnf = Num(0)], cfg)
       IN  /\ f.st = result.st
           /\ result.st = "ok" => result.val = f.val - cfg.dnf_penalty

C9_Witness ==
  /\ result.st = "ok"
  /\ row.dnf = Num(1)
  /\ cfg.dnf_penalty > 0
  /\ isna(row.finish)
  /\ result.val < 0

BonusesOff(c) ==
  /\ c.pole_bonus = 0 /\ c.fastest_lap_bonus = 0 /\ c.dnf_penalty = 0
  /\ c.position_gain_bonus = 0 /\ c.position_loss_penalty = 0

\* lookup of a normalized position: 0 if absent, unmapped or no mapping
NormalizedLookup(m, c) == IF InRange(c) THEN lookup(m, str(c.v)) ELSE 0

\* C10 (as claimed): with the five bonuses at 0 the score is the
\* finish-points lookup of the normalized finish plus the qualifying-points
\* lookup of the normalized quali.
C10_Additive ==
  (Scored /\ BonusesOff(cfg)) =>
     result = Ret(NormalizedLookup(cfg.race_points_by_finish, row.finish)
                  + NormalizedLookup(cfg.qualifying_points_by_position, row.quali))

----------------------------------------------------------------------------
(* SpecAgg: aggregate_points on a table of simulated scores *)

InitAgg ==
  /\ \/ \E n \in 0..MaxSimRows, hasRound \in BOOLEAN :
          \E rows \in [1..n -> SimRows] : sim_df = SimTable(rows, hasRound)
     \/ \E n \in 1..MaxSimRows :
          \E rows \in [1..n -> SimRows] : sim_df = KeylessTable(rows)
  /\ agg = NotRun
  /\ ScoreIdle
  /\ H2HIdle
  /\ OthersIdle

Aggregate ==
  /\ sim_df # NoTable
  /\ agg.st = "pending"
  /\ agg' = aggregate_points(sim_df)
  /\ UNCHANGED <<row, cfg, result, sim_df, df, per_race, summ, done, corrVars, appVars, backoffVars, fetchVars>>

NextAgg == Aggregate

SpecAgg == InitAgg /\ [][NextAgg]_vars

\* C4 (as claimed): the points aggregate_points returns sum to the points
\* of its input rows.
C4_Conservation ==
  agg.st = "ok" => SumPoints(agg.val) = SumPoints(sim_df.rows)

\* the key columns the table has
PresentKeys(t) == { i \in 1..Len(GroupKeys) : GroupKeys[i] \in t.cols }

\* the distinct combinations of the present keys over the rows that have
\* all of them
PresentGroups(t) ==
  { [i \in PresentKeys(t) |-> t.rows[n][GroupKeys[i]]] :
      n \in { m \in 1..Len(t.rows) :
                \A i \in PresentKeys(t) : ~isna(t.rows[m][GroupKeys[i]]) } }

\* C11 (as claimed): aggregate_points never fails for a missing key
\* column: it returns one row per combination of the key columns the table
\* has, and a single row with the grand total of sim_points when the table
\* has none of them.
C11_GroupsByPresentKeys ==
  agg.st # "pending" =>
    /\ agg.st = "ok"
    /\ Len(agg.val) = Cardinality(PresentGroups(sim_df))
    /\ PresentKeys(sim_df) = {} =>
         /\ Len(agg.val) = 1
         /\ agg.val[1].sim_points = SumPoints(sim_df.rows)

----------------------------------------------------------------------------
(* SpecH2H: teammate_h2h on a joined table *)

InitH2H ==
  /\ \/ \E team \in {Num(1), NaN}, lacks \in {"none", "dnf", "finish"} :
          \E fa \in FinishCells, fb \in FinishCells, da \in DnfCells, db \in DnfCells :
             df = H2HTable(<<Entry(Event(1, team), Num(1), fa, da),
                             Entry(Event(1, team), Num(2), fb, db)>>, lacks)
     \/ \E n \in 0..MaxRows :
          \E rows \in [1..n -> SeasonRows] : df = H2HTable(rows, "none")
  /\ per_race = NoTable
  /\ summ = NoTable
  /\ done = FALSE
  /\ ScoreIdle
  /\ AggIdle
  /\ OthersIdle

ComputeH2H ==
  /\ df # NoTable
  /\ ~done
  /\ LET out == teammate_h2h(df)
     IN  per_race' = out[1] /\ summ' = out[2]
  /\ done' = TRUE
  /\ UNCHANGED <<row, cfg, result, sim_df, agg, df, corrVars, appVars, backoffVars, fetchVars>>

NextH2H == ComputeH2H

SpecH2H == InitH2H /\ [][NextH2H]_vars

----------------------------------------------------------------------------
(* Properties of teammate_h2h *)

RaceIdx == 1..Len(per_race)

\* the resolution as the claim words it: a lone DNF always decides
ClaimedResolve(f1, d1, f2, d2) ==
  IF d1 = 1 /\ d2 = 1 THEN NaN
  ELSE IF d1 = 1 THEN Num(0)
  ELSE IF d2 = 1 THEN Num(1)
  ELSE IF isna(f1) \/ isna(f2) THEN NaN
  ELSE IF f1.v < f2.v THEN Num(1)
  ELSE IF f2.v < f1.v THEN Num(0)
  ELSE NaN

\* the same, except that two absent finishes are never decided
AmendedResolve(f1, d1, f2, d2) ==
  IF isna(f1) /\ isna(f2) THEN NaN ELSE ClaimedResolve(f1, d1, f2, d2)

\* C1 (as claimed): every per-race row resolves beat_teammate from the
\* (finish, dnf) pairs with a lone DNF losing whatever the finish values.
C1_ClaimedResolution ==
  \A i \in RaceIdx :
    per_race[i].beat_teammate =
      ClaimedResolve(per_race[i].finish, per_race[i].dnf,
                     per_race[i].tm_finish, per_race[i].tm_dnf)

\* C1 (amended): both DNF is no-result; exactly one DNF gives the win to
\* the entrant without DNF unless both finish values are absent, which is
\* no-result; neither DNF and a finish absent is no-result; both finished
\* gives the win to the lower finish value, and equal values no-result.
C1_Resolution ==
  \A i \in RaceIdx :
    per_race[i].beat_teammate =
      AmendedResolve(per_race[i].finish, per_race[i].dnf,
                     per_race[i].tm_finish, per_race[i].tm_dnf)

C1_Witness ==
  \E i \in RaceIdx :
    /\ isna(per_race[i].finish) /\ isna(per_race[i].tm_finish)
    /\ per_race[i].dnf = 0 /\ per_race[i].tm_dnf = 1
    /\ isna(per_race[i].beat_teammate)

SameGroup(p, q) ==
  /\ p.season = q.season /\ p.round = q.round
  /\ p.grand_prix = q.grand_prix /\ p.team = q.team

Mirrored(p, q) ==
  /\ p.teammate = q.driver /\ p.tm_finish = q.finish /\ p.tm_dnf = q.dnf
  /\ q.teammate = p.driver /\ q.tm_finish = p.finish /\ q.tm_dnf = p.dnf

Complementary(p, q) ==
  \/ isna(p.beat_teammate) /\ isna(q.beat_teammate)
  \/ p.beat_teammate = Num(1) /\ q.beat_teammate = Num(0)
  \/ p.beat_teammate = Num(0) /\ q.beat_teammate = Num(1)

\* C5: the per-race rows come in pairs of one group: each row has exactly
\* one other row of its group, the two mirror each other's driver, finish
\* and dnf, and they are both no-result or one won and the other lost.
C5_Symmetry ==
  \A i \in RaceIdx :
    /\ Cardinality({ j \in RaceIdx : SameGroup(per_race[i], per_race[j]) }) = 2
    /\ \E j \in RaceIdx \ {i} :
         /\ SameGroup(per_race[i], per_race[j])
         /\ Mirrored(per_race[i], per_race[j])
         /\ Complementary(per_race[i], per_race[j])

C5_Witness ==
  \E i \in RaceIdx, j \in RaceIdx :
    /\ i # j /\ SameGroup(per_race[i], per_race[j])
    /\ per_race[i].beat_teammate = Num(1) /\ per_race[j].beat_teammate = Num(0)
    /\ per_race[j].dnf = 1 /\ ~isna(per_race[j].finish)

TableIdx == IF df = NoTable THEN {} ELSE 1..Len(df.rows)

\* entrants of group k with a driver
EntrantCount(k) ==
  Cardinality({ i \in TableIdx : EventTeam(df.rows[i]) = k /\ ~isna(df.rows[i].driver) })

EmittedCount(k) ==
  Cardinality({ i \in RaceIdx : EventTeam(per_race[i]) = k })

GroupsOfTable == { EventTeam(df.rows[i]) : i \in TableIdx }

ExactlyTwoRule ==
  \A k \in GroupsOfTable :
    EmittedCount(k) = IF EntrantCount(k) = 2 THEN 2 ELSE 0

\* C6 (as claimed): for every input table a group emits two rows if it has
\* exactly two entrants with a driver and none otherwise.
C6_ClaimedExclusion == done => ExactlyTwoRule

\* C6 (amended): the same for every table that has all of the columns
\* season, round, grand_prix, driver, team, finish and dnf; a table that
\* lacks one of them emits no row at all.
C6_Exclusion ==
  done => IF needed \subseteq df.cols THEN ExactlyTwoRule ELSE per_race = <<>>

C6_Witness ==
  /\ done
  /\ \E k \in GroupsOfTable :
       /\ EntrantCount(k) = 2 /\ EmittedCount(k) = 2
       /\ Cardinality({ i \in TableIdx : EventTeam(df.rows[i]) = k }) = 3
  /\ \E k \in GroupsOfTable : EntrantCount(k) = 1 /\ EmittedCount(k) = 0

SummIdx == 1..Len(summ)

RowsOf(d) == { i \in RaceIdx : per_race[i].driver = d }
WonBy(d)  == { i \in RowsOf(d) : per_race[i].beat_teammate = Num(1) }
ValidOf(d) == { i \in RowsOf(d) : ~isna(per_race[i].beat_teammate) }

\* C7: a driver has a summary row exactly if one of the driver's per-race
\* rows has a result; its wins are the rows won, its total the rows with a
\* result and its losses total - wins, so total >= 1 and 0 <= wins <= total.
C7_Summary ==
  /\ \A d \in { per_race[i].driver : i \in RaceIdx } :
       LET rowsOfD == { j \in SummIdx : summ[j].driver = d }
       IN  IF ValidOf(d) = {} THEN rowsOfD = {}
           ELSE /\ Cardinality(rowsOfD) = 1
                /\ \A j \in rowsOfD :
                     /\ summ[j].wins = Cardinality(WonBy(d))
                     /\ summ[j].total = Cardinality(ValidOf(d))
                     /\ summ[j].losses = summ[j].total - summ[j].wins
  /\ \A j \in SummIdx :
       /\ summ[j].driver \in { per_race[i].driver : i \in RaceIdx }
       /\ summ[j].total >= 1
       /\ 0 <= summ[j].wins /\ summ[j].wins <= summ[j].total

C7_Witness ==
  \E j \in SummIdx :
    /\ summ[j].wins = 1 /\ summ[j].total = 1 /\ summ[j].losses = 0
    /\ Cardinality(RowsOf(summ[j].driver)) = 2

----------------------------------------------------------------------------
(* SpecCorr: correlation_report on a joined table *)

InitCorr ==
  /\ \E n \in 0..MaxCorrRows, cols \in CorrColSets :
       \E rows \in [1..n -> CorrRows] : cdf = CorrTable(rows, cols)
  /\ report = NotRun
  /\ ScoreIdle
  /\ AggIdle
  /\ H2HIdle
  /\ AppIdle /\ BackoffIdle /\ FetchIdle

Correlate ==
  /\ cdf # NoTable
  /\ report.st = "pending"
  /\ report' = correlation_report(cdf)
  /\ UNCHANGED <<row, cfg, result, sim_df, agg, df, per_race, summ, done, cdf, appVars, backoffVars, fetchVars>>

NextCorr == Correlate

SpecCorr == InitCorr /\ [][NextCorr]_vars

ReportRows == IF report.st = "ok" THEN report.val ELSE <<>>

\* the rows of the input where both the predictor and finish are non-absent
\* (a column the table lacks is absent in every row)
PairedCount(col) ==
  Cardinality({ i \in 1..Len(cdf.rows) :
                  /\ cdf.rows[i][col].t = "num"
                  /\ cdf.rows[i].finish.t = "num" })

\* one row per present predictor with the paired count as n, null
\* coefficients when n < 3, and null-spearman rows after all others
ReportShape ==
  /\ \A k \in 1..Len(Predictors) :
       Predictors[k] \in cdf.cols =>
         LET mine == { i \in 1..Len(ReportRows) :
                         ReportRows[i].metric = Predictors[k] }
         IN  /\ Cardinality(mine) = 1
             /\ \A i \in mine :
                  /\ ReportRows[i].n = PairedCount(Predictors[k])
                  /\ ReportRows[i].n < 3 =>
                       /\ isna(ReportRows[i].pearson)
                       /\ isna(ReportRows[i].spearman)
  /\ \A i, j \in 1..Len(ReportRows) :
       isna(ReportRows[i].spearman) /\ ~isna(ReportRows[j].spearman) => j < i

\* C12 (as claimed): for every input table the report has exactly one row
\* per present predictor column, whose n counts the rows where predictor and
\* finish are both non-absent, with null pearson and spearman when n < 3,
\* and the null-spearman rows come after every non-null row.
C12_ClaimedReport == report.st # "pending" => ReportShape

\* C12 (amended): the same for every table that has a finish column.
C12_Report ==
  (report.st # "pending" /\ "finish" \in cdf.cols) => ReportShape

C12_Witness ==
  /\ report.st = "ok"
  /\ \E i, j, k \in 1..Len(report.val) :
       /\ i < j
       /\ report.val[i].metric = "grid" /\ report.val[i].n >= 3
       /\ ~isna(report.val[i].spearman)
       /\ report.val[j].metric = "quali" /\ report.val[j].n = 2
       /\ isna(report.val[j].spearman)
       /\ report.val[k].metric = "p1" /\ report.val[k].n = 0

----------------------------------------------------------------------------
(* SpecApp: a session of app.py *)

\* the state after the first run: the radio starts at Sample (line 50)
InitApp ==
  /\ source = "Sample" /\ openf1_loaded = FALSE /\ race_label = 1
  /\ cfg_raw \in CfgChoices
  /\ disk \in {NoFile} \cup Races
  /\ load_cache = (SamplePath :> SampleData)
  /\ sim_cache = NoEntries /\ corr_cache = NoEntries
  /\ shown = NothingShown
  /\ ScoreIdle /\ AggIdle /\ H2HIdle /\ CorrIdle /\ BackoffIdle /\ FetchIdle

coreVars == <<row, cfg, result, sim_df, agg, df, per_race, summ, done, corrVars,
              backoffVars, fetchVars>>

\* line 50
SelectSource ==
  /\ \E src \in {"Sample", "Upload CSVs", "OpenF1"} :
       src # source /\ Script(src, race_label, cfg_raw, "none", TRUE)
  /\ UNCHANGED coreVars

\* lines 78-84
SelectRace ==
  /\ source = "OpenF1"
  /\ \E rc \in Races : rc # race_label /\ Script(source, rc, cfg_raw, "none", TRUE)
  /\ UNCHANGED coreVars

\* lines 86-95
FetchFromOpenF1 ==
  /\ source = "OpenF1"
  /\ \E found \in BOOLEAN : Script(source, race_label, cfg_raw, "fetch", found)
  /\ UNCHANGED coreVars

\* lines 129-144
EditScoring ==
  /\ source # "Upload CSVs"
  /\ source = "OpenF1" => openf1_loaded
  /\ \E c \in CfgChoices : c # cfg_raw /\ Script(source, race_label, c, "none", TRUE)
  /\ UNCHANGED coreVars

\* lines 199-201
RunSimulation ==
  /\ Script(source, race_label, cfg_raw, "sim", TRUE)
  /\ shown' # NothingShown
  /\ UNCHANGED coreVars

\* lines 167-169
ComputeCorrelations ==
  /\ Script(source, race_label, cfg_raw, "corr", TRUE)
  /\ shown' # NothingShown
  /\ UNCHANGED coreVars

NextApp ==
  \/ SelectSource \/ SelectRace \/ FetchFromOpenF1
  \/ EditScoring \/ RunSimulation \/ ComputeCorrelations

SpecApp == InitApp /\ [][NextApp]_vars

\* the joined table of the files the current source points at
CurrentData == content(IF source = "Sample" THEN SamplePath ELSE OpenF1Path, disk)

\* C13 (as claimed): after any sequence of user actions every table shown
\* equals the result of the core function on the current contents of the
\* session/result files and the current config, never on an earlier fetch.
C13_ShownIsCurrent ==
  /\ shown.fn = "sim" => shown.val = sim_of(CurrentData, cfg_raw)
  /\ shown.fn = "corr" => shown.val = corr_of(CurrentData)

----------------------------------------------------------------------------
(* SpecBackoff: _with_backoff(fn, key) *)

InitBackoff ==
  /\ fn_arg \in Keys
  /\ attempt = 0 /\ delay = 1
  /\ slept = <<>> /\ log = <<>> /\ returned = Pending
  /\ ScoreIdle /\ AggIdle /\ H2HIdle /\ CorrIdle /\ AppIdle /\ FetchIdle

\* lines 29-36: one pass of the loop
Attempt ==
  /\ returned = Pending
  /\ attempt < MaxAttempts
  /\ \E res \in FnResults(fn_arg) :
       /\ log' = Append(log, res)
       /\ IF res.kind = "ok"
          THEN /\ returned' = Ret(res.v)
               /\ UNCHANGED <<attempt, delay, slept>>
          ELSE IF retryable(res, attempt)
          THEN /\ slept' = Append(slept, delay)
               /\ delay' = delay * 2
               /\ attempt' = attempt + 1
               /\ UNCHANGED returned
          ELSE /\ returned' = Raise(res)
               /\ UNCHANGED <<attempt, delay, slept>>
  /\ UNCHANGED <<row, cfg, result, sim_df, agg, df, per_race, summ, done,
                 corrVars, appVars, fetchVars, fn_arg>>

NextBackoff == Attempt

\* the loop runs to its end: every call of fn and every sleep returns
SpecBackoff == InitBackoff /\ [][NextBackoff]_vars /\ WF_vars(NextBackoff)

\* the sleeps of the claim, in order
ClaimedSleeps == <<1, 2, 4, 8, 16>>

IsTooMany(res) == res.kind = "http" /\ res.v = TooManyRequests

BackoffSafe ==
  /\ Len(log) <= 6
  \* every call but the last one failed with 429 and was followed by a sleep
  /\ \A i \in 1..(Len(log) - 1) : IsTooMany(log[i])
  /\ returned = Pending =>
       /\ Len(log) <= 5
       /\ \A i \in 1..Len(log) : IsTooMany(log[i])
       /\ slept = SubSeq(ClaimedSleeps, 1, Len(log))
  /\ returned # Pending =>
       /\ log # <<>>
       /\ slept = SubSeq(ClaimedSleeps, 1, Len(log) - 1)
       /\ LET last == log[Len(log)]
          IN  /\ last.kind = "ok" => returned = Ret(last.v)
              /\ last.kind # "ok" => returned = Raise(last)
              /\ IsTooMany(last) => Len(log) = 6

\* C14: _with_backoff ends after at most 6 calls of fn; it returns the
\* result of the first call that succeeds, re-raises at once an error that
\* is not a 429, retries a 429 only on attempts 1 to 5, sleeping 1, 2, 4, 8,
\* 16 seconds in that order, and re-raises the 429 of the sixth attempt.
C14_Backoff == []BackoffSafe /\ <>(returned # Pending)

C14_Witness ==
  /\ returned = Raise(HTTPStatusError(TooManyRequests))
  /\ Len(log) = 6
  /\ slept = ClaimedSleeps

----------------------------------------------------------------------------
(* SpecFetch: calls of _read_or_fetch on the cache files of a meeting *)

InitFetch ==
  /\ cache_files = [p \in CachePaths |-> NoCsv]
  /\ last_call = NoCall
  /\ ScoreIdle /\ AggIdle /\ H2HIdle /\ CorrIdle /\ AppIdle /\ BackoffIdle

\* lines 40-52
ReadOrFetch ==
  /\ \E path \in CachePaths :
       IF cache_files[path].exists
       THEN /\ last_call' = [path |-> path, existed |-> TRUE, fetched |-> FALSE,
                             out |-> read_csv(cache_files[path])]
            /\ UNCHANGED cache_files
       ELSE \E res \in FetchResults :
              IF res.kind = "ok"
              THEN /\ cache_files' = [cache_files EXCEPT ![path] = to_csv(res.v)]
                   /\ last_call' = [path |-> path, existed |-> FALSE,
                                    fetched |-> TRUE, out |-> Ret(res.v)]
              ELSE /\ UNCHANGED cache_files
                   /\ last_call' = [path |-> path, existed |-> FALSE,
                                    fetched |-> TRUE, out |-> Raise(res)]
  /\ UNCHANGED <<row, cfg, result, sim_df, agg, df, per_race, summ, done,
                 corrVars, appVars, backoffVars>>

NextFetch == ReadOrFetch

SpecFetch == InitFetch /\ [][NextFetch]_vars

\* C15 (as claimed): fetch_fn is invoked only when the file does not exist;
\* after a fetch that succeeded the file exists and a call that finds the
\* file returns its content without invoking fetch_fn; when fetch_fn raises
\* no file is written.
C15_DiskCacheFirst ==
  last_call # NoCall =>
    LET file == cache_files[last_call.path]
    IN  /\ last_call.fetched => ~last_call.existed
        /\ (last_call.fetched /\ last_call.out.st = "ok") => file.exists
        /\ last_call.existed =>
             /\ ~last_call.fetched
             /\ last_call.out.st = "ok"
             /\ to_csv(last_call.out.val) = file
        /\ (last_call.fetched /\ last_call.out.st = "raise") => ~file.exists

====
